---- MODULE Spec2Model ----
(***************************************************************************)
(* Model of src/src/nfa.rs: the NFA construction algebra (empty, unit,     *)
(* plus, times, star) and the matcher NFA::is_match.                       *)
(*                                                                         *)
(* A client builds automata on a stack (postfix order) and calls is_match  *)
(* on the automaton on top of it.  is_match is modelled step by step: the  *)
(* threads it spawns for the starting states, the shared counter, the      *)
(* counter/recv wait loop and the subset simulation.                       *)
(* A Node(n) is the number n; a char is an element of Alphabet.            *)
(***************************************************************************)
EXTENDS Naturals, Integers, Sequences, FiniteSets, TLC

\* ---------------------------------------------------------------- bounds
MaxStates == 5        \* total number of states of the automata on the stack
MaxLen == 3           \* longest input string
MaxMatchStates == 3   \* largest automaton is_match is run on step by step
MaxRecStates == 3     \* largest automaton recfn is run on
Alphabet == {"a", "b"}     \* the chars of the input strings
Wildcard == "*"            \* the char a caller would pass to unit as a wildcard
Chars == Alphabet \cup {Wildcard}
NoChar == "-"

VARIABLES
    stack,        \* the automata built so far, the newest last
    last,         \* the last call: its name, its operands and its char
    pc,           \* the caller's position in is_match ("idle" outside it)
    str,          \* is_match: the input string
    thr,          \* is_match: the thread spawned for each starting state
    num_threads,  \* is_match: the counter behind the mutex (line 49)
    works,        \* is_match: line 52
    nodes,        \* is_match: line 74
    idx,          \* is_match: symbols of str consumed by the loop of line 75
    result,       \* is_match: the returned boolean
    tasks,        \* recfn: the calls spawned and not yet run, each the path
                  \*        of nodes from a starting state to its node
    sent,         \* recfn: the booleans sent on the channel (line 21)
    poisoned,     \* recfn: a thread panicked holding the counter's mutex
    checks        \* recfn: the build panics on integer overflow (debug)

vars == <<stack, last, pc, str, thr, num_threads, works, nodes, idx, result,
          tasks, sent, poisoned, checks>>
recvars == <<tasks, sent, poisoned, checks>>
matchvars == <<pc, str, thr, num_threads, works, nodes, idx, result>>

\* ------------------------------------------------------------ the algebra
NoDelta == [k \in {} |-> {}]

\* struct NFA
NFA(states, starting, delta, finished) ==
    [states |-> states, starting |-> starting, delta |-> delta, finished |-> finished]

\* the closure `increase` of plus and times
increase(first, node) == node + first.states

increase_set(first, set) == {increase(first, n) : n \in set}

\* the keys of second.delta, their node renumbered
increase_keys(first, second) == {<<increase(first, k[1]), k[2]>> : k \in DOMAIN second.delta}

\* the table after inserting every renumbered entry of second.delta into base
\* (HashMap::insert: an inserted key replaces an equal key of base)
insert_second(first, second, base) ==
    LET keys2 == increase_keys(first, second)
    IN [k \in (DOMAIN base) \cup keys2 |->
            IF k \in keys2
            THEN increase_set(first, second.delta[<<k[1] - first.states, k[2]>>])
            ELSE base[k]]

empty == NFA(1, {0}, NoDelta, {0})

\* unit with the starting state as the finished state
unit_start_finished(ch) == NFA(2, {0}, [k \in {<<0, ch>>} |-> {1}], {0})

unit(ch) == NFA(2, {0}, [k \in {<<0, ch>>} |-> {1}], {1})

\* plus renumbering the second operand by its own size
plus_second_offset(first, second) ==
    NFA(first.states + second.states,
        first.starting \cup increase_set(second, second.starting),
        [k \in (DOMAIN first.delta) \cup increase_keys(second, second) |->
            IF k \in increase_keys(second, second)
            THEN increase_set(second, second.delta[<<k[1] - second.states, k[2]>>])
            ELSE first.delta[k]],
        first.finished \cup increase_set(second, second.finished))

\* plus inserting the entries of second.delta under their own keys
plus_unshifted_keys(first, second) ==
    NFA(first.states + second.states,
        first.starting \cup increase_set(first, second.starting),
        [k \in (DOMAIN first.delta) \cup (DOMAIN second.delta) |->
            IF k \in DOMAIN second.delta
            THEN increase_set(first, second.delta[k])
            ELSE first.delta[k]],
        first.finished \cup increase_set(first, second.finished))

\* plus taking only the starting states of the first operand
plus_first_starting(first, second) ==
    NFA(first.states + second.states,
        first.starting,
        insert_second(first, second, first.delta),
        first.finished \cup increase_set(first, second.finished))

\* plus with the intersection of the starting sets in place of their union
plus_intersection(first, second) ==
    NFA(first.states + second.states,
        first.starting \cap increase_set(first, second.starting),
        insert_second(first, second, first.delta),
        first.finished \cup increase_set(first, second.finished))

plus(first, second) ==
    NFA(first.states + second.states,
        first.starting \cup increase_set(first, second.starting),
        insert_second(first, second, first.delta),
        first.finished \cup increase_set(first, second.finished))

\* times keeping the finished states of the first operand
times_keep_finished(first, second) ==
    LET second_starting == increase_set(first, second.starting)
        starting == IF \E node \in first.starting : node \in first.finished
                    THEN first.starting \cup second_starting
                    ELSE first.starting
        delta1 == [k \in DOMAIN first.delta |->
                      IF \E node \in first.delta[k] : node \in first.finished
                      THEN first.delta[k] \cup second_starting
                      ELSE first.delta[k]]
    IN NFA(first.states + second.states,
           starting,
           insert_second(first, second, delta1),
           first.finished \cup increase_set(first, second.finished))

\* times handing off to the second operand from any finished state of the
\* first, not only from one that is a starting state
times_any_finished(first, second) ==
    LET second_starting == increase_set(first, second.starting)
        starting == IF first.finished # {}
                    THEN first.starting \cup second_starting
                    ELSE first.starting
        delta1 == [k \in DOMAIN first.delta |->
                      IF \E node \in first.delta[k] : node \in first.finished
                      THEN first.delta[k] \cup second_starting
                      ELSE first.delta[k]]
    IN NFA(first.states + second.states,
           starting,
           insert_second(first, second, delta1),
           increase_set(first, second.finished))

\* times without the hand-off from the starting states of a first operand
\* that accepts the empty string
times_first_starting(first, second) ==
    LET second_starting == increase_set(first, second.starting)
        delta1 == [k \in DOMAIN first.delta |->
                      IF \E node \in first.delta[k] : node \in first.finished
                      THEN first.delta[k] \cup second_starting
                      ELSE first.delta[k]]
    IN NFA(first.states + second.states,
           first.starting,
           insert_second(first, second, delta1),
           increase_set(first, second.finished))

times(first, second) ==
    LET second_starting == increase_set(first, second.starting)
        starting == IF \E node \in first.starting : node \in first.finished
                    THEN first.starting \cup second_starting
                    ELSE first.starting
        delta1 == [k \in DOMAIN first.delta |->
                      IF \E node \in first.delta[k] : node \in first.finished
                      THEN first.delta[k] \cup second_starting
                      ELSE first.delta[k]]
    IN NFA(first.states + second.states,
           starting,
           insert_second(first, second, delta1),
           increase_set(first, second.finished))

\* star testing the target sets against the new finished set
star_new_finished(nfa) ==
    NFA(nfa.states,
        nfa.starting,
        [k \in DOMAIN nfa.delta |->
            IF \E node \in nfa.delta[k] : node \in nfa.finished \cup nfa.starting
            THEN nfa.delta[k] \cup nfa.starting
            ELSE nfa.delta[k]],
        nfa.finished \cup nfa.starting)

star(nfa) ==
    NFA(nfa.states,
        nfa.starting,
        [k \in DOMAIN nfa.delta |->
            IF \E node \in nfa.delta[k] : node \in nfa.finished
            THEN nfa.delta[k] \cup nfa.starting
            ELSE nfa.delta[k]],
        nfa.finished \cup nfa.starting)

\* ------------------------------------------------------------ the matcher
\* the loop of line 75 without the fresh set of line 76
new_nodes_keep(nfa, from, ch) ==
    from \cup UNION {nfa.delta[<<node, ch>>] : node \in {n \in from : <<n, ch>> \in DOMAIN nfa.delta}}

\* the loop of line 75 looking up the key of the wildcard char as well
new_nodes_wild(nfa, from, ch) ==
    UNION {nfa.delta[k] : k \in {j \in DOMAIN nfa.delta : j[1] \in from /\ j[2] \in {ch, Wildcard}}}

\* one round of the loop of line 75: the nodes reached from `from` on ch
new_nodes(nfa, from, ch) ==
    UNION {nfa.delta[<<node, ch>>] : node \in {n \in from : <<n, ch>> \in DOMAIN nfa.delta}}

\* line 86 with all in place of any
all_finished(nfa, from) == \A node \in from : node \in nfa.finished

\* line 86
any_finished(nfa, from) == \E node \in from : node \in nfa.finished

RECURSIVE run(_, _, _, _)
run(nfa, string, i, from) ==
    IF i = Len(string) THEN from
    ELSE run(nfa, string, i + 1, new_nodes(nfa, from, string[i + 1]))

\* the value is_match returns (lines 74-86)
is_match(nfa, string) == any_finished(nfa, run(nfa, string, 0, nfa.starting))

\* ----------------------------------------------------------------- state
NoCall == [op |-> "none", args |-> <<>>, ch |-> NoChar]
Call(op, args, ch) == [op |-> op, args |-> args, ch |-> ch]

Top == stack[Len(stack)]

RECURSIVE StackStates(_)
StackStates(s) == IF s = <<>> THEN 0 ELSE Head(s).states + StackStates(Tail(s))

RECURSIVE StringsOfLen(_)
StringsOfLen(n) ==
    IF n = 0 THEN {<<>>}
    ELSE {Append(s, c) : s \in StringsOfLen(n - 1), c \in Alphabet}

Strings == UNION {StringsOfLen(n) : n \in 0..MaxLen}

Init ==
    /\ stack = <<>>
    /\ last = NoCall
    /\ pc = "idle"
    /\ str = <<>>
    /\ thr = NoDelta
    /\ num_threads = 0
    /\ works = FALSE
    /\ nodes = {}
    /\ idx = 0
    /\ result = FALSE
    /\ tasks = {}
    /\ sent = <<>>
    /\ poisoned = FALSE
    /\ checks = FALSE

\* ------------------------------------------------- the client's algebra calls
CallEmpty ==
    /\ pc = "idle"
    /\ StackStates(stack) + 1 <= MaxStates
    /\ stack' = Append(stack, empty)
    /\ last' = Call("empty", <<>>, NoChar)
    /\ UNCHANGED matchvars
    /\ UNCHANGED recvars

CallUnit(ch) ==
    /\ pc = "idle"
    /\ StackStates(stack) + 2 <= MaxStates
    /\ stack' = Append(stack, unit(ch))
    /\ last' = Call("unit", <<>>, ch)
    /\ UNCHANGED matchvars
    /\ UNCHANGED recvars

\* the two newest automata are the operands and are replaced by the result
Below == SubSeq(stack, 1, Len(stack) - 2)
First == stack[Len(stack) - 1]
Second == stack[Len(stack)]

CallPlus ==
    /\ pc = "idle"
    /\ Len(stack) >= 2
    /\ stack' = Append(Below, plus(First, Second))
    /\ last' = Call("plus", <<First, Second>>, NoChar)
    /\ UNCHANGED matchvars
    /\ UNCHANGED recvars

CallTimes ==
    /\ pc = "idle"
    /\ Len(stack) >= 2
    /\ stack' = Append(Below, times(First, Second))
    /\ last' = Call("times", <<First, Second>>, NoChar)
    /\ UNCHANGED matchvars
    /\ UNCHANGED recvars

CallStar ==
    /\ pc = "idle"
    /\ Len(stack) >= 1
    /\ stack' = Append(SubSeq(stack, 1, Len(stack) - 1), star(Top))
    /\ last' = Call("star", <<Top>>, NoChar)
    /\ UNCHANGED matchvars
    /\ UNCHANGED recvars

\* ------------------------------------------------------- is_match, by steps
\* lines 48-52: the counter starts at the number of starting states
StartMatch(string) ==
    /\ pc = "idle"
    /\ Len(stack) = 1
    /\ Top.states <= MaxMatchStates
    /\ pc' = "spawn"
    /\ str' = string
    /\ thr' = [n \in Top.starting |-> "new"]
    /\ num_threads' = Cardinality(Top.starting)
    /\ works' = FALSE
    /\ nodes' = {}
    /\ idx' = 0
    /\ result' = FALSE
    /\ last' = Call("is_match", <<Top>>, NoChar)
    /\ UNCHANGED stack
    /\ UNCHANGED recvars

\* lines 55-65: one round of the for loop spawns the thread of a starting
\* state (the HashSet is iterated in any order); after the last round the
\* caller is at the while loop of line 67
Spawn(n) ==
    /\ pc = "spawn"
    /\ n \in DOMAIN thr
    /\ thr[n] = "new"
    /\ thr' = [thr EXCEPT ![n] = "run"]
    /\ pc' = IF \A m \in DOMAIN thr : m = n \/ thr[m] # "new" THEN "loop" ELSE "spawn"
    /\ UNCHANGED <<stack, last, str, num_threads, works, nodes, idx, result>>
    /\ UNCHANGED recvars

\* the thread body taking one more from the counter than line 63
ThreadRunTwice(n) ==
    /\ n \in DOMAIN thr
    /\ thr[n] = "run"
    /\ thr' = [thr EXCEPT ![n] = "done"]
    /\ num_threads' = num_threads - 2
    /\ UNCHANGED <<stack, last, pc, str, works, nodes, idx, result>>
    /\ UNCHANGED recvars

\* lines 61-63: the body of a spawned thread, under the mutex
ThreadRun(n) ==
    /\ n \in DOMAIN thr
    /\ thr[n] = "run"
    /\ thr' = [thr EXCEPT ![n] = "done"]
    /\ num_threads' = num_threads - 1
    /\ UNCHANGED <<stack, last, pc, str, works, nodes, idx, result>>
    /\ UNCHANGED recvars

\* lines 67-72: the condition of the while loop, under the mutex.  When the
\* counter is positive the caller calls rx.recv() (line 71).  No thread ever
\* sends on the channel and the caller's own tx keeps it connected, so recv
\* neither returns a value nor an error: the caller stays at "recv".
\* line 74 when the counter is zero.
LoopCheck ==
    /\ pc = "loop"
    /\ IF num_threads > 0
       THEN /\ pc' = "recv"
            /\ UNCHANGED nodes
       ELSE /\ pc' = "sim"
            /\ nodes' = Top.starting
    /\ UNCHANGED <<stack, last, str, thr, num_threads, works, idx, result>>
    /\ UNCHANGED recvars

\* lines 75-85: one round of the for loop over the chars of the string
SimStep ==
    /\ pc = "sim"
    /\ idx < Len(str)
    /\ nodes' = new_nodes(Top, nodes, str[idx + 1])
    /\ idx' = idx + 1
    /\ UNCHANGED <<stack, last, pc, str, thr, num_threads, works, result>>
    /\ UNCHANGED recvars

\* line 86
SimReturn ==
    /\ pc = "sim"
    /\ idx = Len(str)
    /\ result' = any_finished(Top, nodes)
    /\ pc' = "done"
    /\ UNCHANGED <<stack, last, str, thr, num_threads, works, nodes, idx>>
    /\ UNCHANGED recvars

\* is_match has returned: its locals are dropped and the caller goes on
Resume ==
    /\ pc = "done"
    /\ pc' = "idle"
    /\ str' = <<>>
    /\ thr' = NoDelta
    /\ num_threads' = 0
    /\ works' = FALSE
    /\ nodes' = {}
    /\ idx' = 0
    /\ result' = FALSE
    /\ UNCHANGED <<stack, last>>
    /\ UNCHANGED recvars

Caller == LoopCheck \/ SimStep \/ SimReturn \/ (\E n \in 0..MaxStates : Spawn(n))
Threads == \E n \in 0..MaxStates : ThreadRun(n)

Next ==
    \/ CallEmpty
    \/ \E ch \in Chars : CallUnit(ch)
    \/ CallPlus
    \/ CallTimes
    \/ CallStar
    \/ \E string \in Strings : StartMatch(string)
    \/ \E n \in 0..MaxStates : Spawn(n)
    \/ \E n \in 0..MaxStates : ThreadRun(n)
    \/ LoopCheck
    \/ SimStep
    \/ SimReturn
    \/ Resume

Spec == Init /\ [][Next]_vars

\* the scheduler runs every spawned thread and the caller
FairSpec == Spec /\ WF_vars(Caller) /\ WF_vars(Threads)

\* ------------------------------------------------------ recfn (lines 17-45)
\* A call of recfn is the path of nodes that led to it: its node is the last
\* one, its index the number of symbols consumed.  Its seen_configs is the
\* set its ancestors inserted: the Arc is cloned for every child (line 38)
\* and Arc::make_mut (line 32) writes to the caller's own copy.
rec_node(p) == p[Len(p)]
rec_index(p) == Len(p) - 1
seen_configs(p) == {<<p[i], i - 1>> : i \in 1..(Len(p) - 1)}

\* lines 23-29: what the call does
rec_branch(nfa, string, p) ==
    IF rec_index(p) >= Len(string) /\ rec_node(p) \notin nfa.finished THEN "false"
    ELSE IF rec_node(p) \in nfa.finished THEN "true"
    ELSE IF <<rec_node(p), rec_index(p)>> \in seen_configs(p) THEN "false"
    ELSE "expand"

\* lines 34-42: the calls spawned for the targets of the transition
rec_children(nfa, string, p) ==
    LET key == <<rec_node(p), string[rec_index(p) + 1]>>
    IN IF key \in DOMAIN nfa.delta
       THEN {Append(p, node) : node \in nfa.delta[key]}
       ELSE {}

\* recfn has no caller in nfa.rs.  It is entered the way is_match sets up its
\* threads (lines 49-60): the counter starts at the number of starting
\* states and one call runs for each of them at index 0.  The receiver is
\* held by the caller and stays connected.
StartRec(string, overflow_checks) ==
    /\ pc = "idle"
    /\ Len(stack) = 1
    /\ Top.states <= MaxRecStates
    /\ pc' = "recfn"
    /\ str' = string
    /\ num_threads' = Cardinality(Top.starting)
    /\ tasks' = {<<n>> : n \in Top.starting}
    /\ sent' = <<>>
    /\ poisoned' = FALSE
    /\ checks' = overflow_checks
    /\ last' = Call("recfn", <<Top>>, NoChar)
    /\ UNCHANGED <<stack, thr, works, nodes, idx, result>>

\* lines 18-28: send_and_update_mutex.  lock().unwrap() panics on a poisoned
\* mutex; `*num_threads -= 1` at zero panics with the lock held in a build
\* with overflow checks and wraps otherwise (a negative n stands for the
\* usize 2^64 + n); a panic ends the thread before it sends.
RecReport(p) ==
    /\ pc = "recfn"
    /\ p \in tasks
    /\ rec_branch(Top, str, p) # "expand"
    /\ tasks' = tasks \ {p}
    /\ IF poisoned \/ (checks /\ num_threads = 0)
       THEN /\ poisoned' = TRUE
            /\ UNCHANGED <<num_threads, sent>>
       ELSE /\ num_threads' = num_threads - 1
            /\ sent' = Append(sent, rec_branch(Top, str, p) = "true")
            /\ UNCHANGED poisoned
    /\ UNCHANGED <<stack, last, pc, str, thr, works, nodes, idx, result, checks>>

\* the else branch with the counter raised for the calls it spawns
RecExpandCounted(p) ==
    /\ pc = "recfn"
    /\ p \in tasks
    /\ rec_branch(Top, str, p) = "expand"
    /\ tasks' = (tasks \ {p}) \cup rec_children(Top, str, p)
    /\ num_threads' = num_threads + Cardinality(rec_children(Top, str, p)) - 1
    /\ UNCHANGED <<stack, last, pc, str, thr, works, nodes, idx, result,
                   sent, poisoned, checks>>

\* lines 29-44: the else branch records the configuration and spawns a
\* thread for every target; the call returns without touching the counter
\* or the channel and joins none of them
RecExpand(p) ==
    /\ pc = "recfn"
    /\ p \in tasks
    /\ rec_branch(Top, str, p) = "expand"
    /\ tasks' = (tasks \ {p}) \cup rec_children(Top, str, p)
    /\ UNCHANGED <<stack, last, pc, str, thr, num_threads, works, nodes, idx, result,
                   sent, poisoned, checks>>

RecNext ==
    \/ CallEmpty
    \/ \E ch \in Chars : CallUnit(ch)
    \/ CallPlus
    \/ CallTimes
    \/ CallStar
    \/ \E string \in Strings : \E overflow_checks \in BOOLEAN : StartRec(string, overflow_checks)
    \/ \E p \in tasks : RecReport(p)
    \/ \E p \in tasks : RecExpand(p)

RecSpec == Init /\ [][RecNext]_vars

\* ------------------------------------------------------------ the claims
Operand(i) == last.args[i]

\* C1: every call of is_match eventually returns, whatever the interleaving
\* of the threads it spawns, when every thread and the caller are scheduled
\* fairly.
C1_Terminates == (pc = "spawn") ~> (pc = "done")

\* the subset simulation of the specification: the states reached from the
\* starting states after the first k symbols of s
RECURSIVE subset_sim(_, _, _)
subset_sim(nfa, s, k) ==
    IF k = 0 THEN nfa.starting
    ELSE LET prev == subset_sim(nfa, s, k - 1)
         IN {q \in UNION {nfa.delta[key] : key \in DOMAIN nfa.delta} :
                \E p \in prev : /\ <<p, s[k]>> \in DOMAIN nfa.delta
                                /\ q \in nfa.delta[<<p, s[k]>>]}

\* C2: every execution of is_match that returns gives the boolean of the
\* lock-step subset simulation: true iff the states reached from `starting`
\* over the whole input intersect `finished`, whatever the interleaving.
C2_Deterministic ==
    pc = "done" => result = (subset_sim(Top, str, Len(str)) \cap Top.finished # {})

C2_Witness ==
    /\ pc = "done"
    /\ result
    /\ Len(str) >= 2
    /\ Cardinality(DOMAIN thr) >= 2

\* C3: is_match(A, "") is true iff A.starting and A.finished share a state,
\* for the value is_match computes and for every execution that returns.
C3_EmptyInput ==
    /\ \A i \in 1..Len(stack) :
          is_match(stack[i], <<>>) = (stack[i].starting \cap stack[i].finished # {})
    /\ (pc = "done" /\ str = <<>>) => result = (Top.starting \cap Top.finished # {})

C3_Witness ==
    /\ pc = "done"
    /\ str = <<>>
    /\ result
    /\ ~ (Top.starting \subseteq Top.finished)

\* C4: is_match(unit(c), s) is true iff s has length 1 and its symbol is c.
C4_Unit ==
    /\ last.op = "unit" =>
          \A s \in Strings : is_match(Top, s) <=> (Len(s) = 1 /\ s[1] = last.ch)
    /\ \A c \in Alphabet :
          (pc = "done" /\ Top = unit(c)) => (result <=> (Len(str) = 1 /\ str[1] = c))

C4_Witness ==
    /\ pc = "done"
    /\ Top = unit("a")
    /\ str = <<"a">>
    /\ result

\* the invariant of test_within_bounds, extended to delta
within_bounds(nfa) ==
    /\ \A n \in nfa.starting : n < nfa.states
    /\ \A n \in nfa.finished : n < nfa.states
    /\ \A k \in DOMAIN nfa.delta : k[1] < nfa.states
    /\ \A k \in DOMAIN nfa.delta : \A n \in nfa.delta[k] : n < nfa.states

\* C5: every automaton built by empty, unit, plus, times and star has all
\* the states of starting, finished, the keys and the values of delta below
\* its state count.
C5_Bounds == \A i \in 1..Len(stack) : within_bounds(stack[i])

C5_Witness ==
    /\ last.op = "plus"
    /\ Operand(2).delta # NoDelta
    /\ Operand(1).states >= 2
    /\ Top.states >= 4

\* s is the concatenation of zero or more strings nfa accepts
RECURSIVE in_closure(_, _)
in_closure(nfa, s) ==
    \/ s = <<>>
    \/ \E i \in 1..Len(s) : /\ is_match(nfa, SubSeq(s, 1, i))
                            /\ in_closure(nfa, SubSeq(s, i + 1, Len(s)))

\* s = u.v with u accepted by first and v accepted by second
in_concat(first, second, s) ==
    \E i \in 0..Len(s) : /\ is_match(first, SubSeq(s, 1, i))
                         /\ is_match(second, SubSeq(s, i + 1, Len(s)))

\* C6: is_match(star(A), s) is true iff s is the concatenation of zero or
\* more strings each accepted by A.
C6_StarLanguage ==
    last.op = "star" =>
        \A s \in Strings : is_match(Top, s) <=> in_closure(Operand(1), s)

\* C7: star is idempotent on languages: is_match(star(star(A)), s) equals
\* is_match(star(A), s).
C7_StarIdempotent ==
    last.op = "star" =>
        \A s \in Strings : is_match(star(Top), s) = is_match(Top, s)

\* the scenarios of test_times and test_star_with_plus_and_times
TimesExamples ==
    LET ab == times(unit("a"), unit("b"))
        abStarC == times(star(ab), unit("c"))
    IN /\ is_match(ab, <<"a", "b">>)
       /\ ~ is_match(ab, <<"b", "a">>)
       /\ ~ is_match(abStarC, <<"a", "b">>)
       /\ is_match(abStarC, <<"a", "b", "a", "b", "a", "b", "a", "b", "c">>)

\* C8: is_match(times(A,B), s) is true iff s = u.v with is_match(A,u) and
\* is_match(B,v), u or v possibly empty; times(a, b) accepts "ab" and rejects
\* "ba", times(star(times(a, b)), c) rejects "ab" and accepts "ababababc".
C8_TimesLanguage ==
    /\ last.op = "times" =>
          \A s \in Strings : is_match(Top, s) <=> in_concat(Operand(1), Operand(2), s)
    /\ TimesExamples

C8_Witness ==
    /\ last.op = "times"
    /\ \E s \in Strings : \E i \in 1..(Len(s) - 1) :
          /\ is_match(Top, s)
          /\ is_match(Operand(1), SubSeq(s, 1, i))
          /\ is_match(Operand(2), SubSeq(s, i + 1, Len(s)))
          /\ ~ is_match(Operand(1), s)

\* C9: concatenation is associative on languages: with A below the result
\* of times(B,C), is_match(times(times(A,B),C), s) equals
\* is_match(times(A,times(B,C)), s).
C9_TimesAssociative ==
    (last.op = "times" /\ Len(stack) >= 2) =>
        \A s \in Strings :
            is_match(times(times(First, Operand(1)), Operand(2)), s)
                = is_match(times(First, Top), s)

C9_Witness ==
    /\ last.op = "times"
    /\ Len(stack) >= 2
    /\ \E s \in Strings : /\ Len(s) >= 2
                          /\ is_match(times(First, Top), s)
                          /\ ~ is_match(Top, s)
                          /\ ~ is_match(First, s)

\* the scenario of test_plus
PlusExamples ==
    LET abcd == plus(times(unit("a"), unit("b")), times(unit("c"), unit("d")))
    IN /\ is_match(abcd, <<"a", "b">>)
       /\ is_match(abcd, <<"c", "d">>)
       /\ ~ is_match(abcd, <<"a", "c">>)
       /\ ~ is_match(abcd, <<"c", "b">>)

\* C10: is_match(plus(A,B), s) is true iff is_match(A,s) or is_match(B,s);
\* plus(ab, cd) accepts "ab" and "cd" and rejects "ac" and "cb".
C10_PlusLanguage ==
    /\ last.op = "plus" =>
          \A s \in Strings :
              is_match(Top, s) <=> (is_match(Operand(1), s) \/ is_match(Operand(2), s))
    /\ PlusExamples

C10_Witness ==
    /\ last.op = "plus"
    /\ \E s, t \in Strings :
          /\ is_match(Operand(1), s) /\ ~ is_match(Operand(2), s) /\ is_match(Top, s)
          /\ is_match(Operand(2), t) /\ ~ is_match(Operand(1), t) /\ is_match(Top, t)
          /\ Len(s) >= 2

\* C11: union is commutative on languages: is_match(plus(A,B), s) equals
\* is_match(plus(B,A), s).
C11_PlusCommutative ==
    last.op = "plus" =>
        \A s \in Strings : is_match(Top, s) = is_match(plus(Operand(2), Operand(1)), s)

C11_Witness ==
    /\ last.op = "plus"
    /\ Operand(1) # Operand(2)
    /\ \E s \in Strings : /\ Len(s) >= 1
                          /\ is_match(Top, s)
                          /\ is_match(Operand(2), s)
                          /\ ~ is_match(Operand(1), s)

\* C12: empty() is an identity of times on languages: times(empty(), A) and
\* times(A, empty()) accept the strings A accepts; empty() accepts exactly
\* the empty input.
C12_EmptyIdentity ==
    /\ (last.op = "times" /\ Operand(1) = empty) =>
          \A s \in Strings : is_match(Top, s) = is_match(Operand(2), s)
    /\ (last.op = "times" /\ Operand(2) = empty) =>
          \A s \in Strings : is_match(Top, s) = is_match(Operand(1), s)
    /\ last.op = "empty" => \A s \in Strings : is_match(Top, s) <=> s = <<>>
    /\ (pc = "done" /\ Top = empty) => (result <=> str = <<>>)

C12_Witness ==
    /\ last.op = "times"
    /\ Operand(1) = empty
    /\ \E s \in Strings : Len(s) >= 2 /\ is_match(Top, s)
    /\ \E s \in Strings : ~ is_match(Top, s)

\* no active state has a transition on the next symbol of the input
no_transition ==
    \A n \in nodes : <<n, str[idx + 1]>> \notin DOMAIN Top.delta

\* C13: a symbol that labels no transition out of any active state raises
\* no error: the active set becomes empty at that step, stays empty for
\* every later symbol, and is_match returns false.
C13_SilentRejection ==
    [][(pc = "sim" /\ idx < Len(str) /\ (no_transition \/ nodes = {}))
            => (pc' = "sim" /\ idx' = idx + 1 /\ nodes' = {})]_vars
    /\ [][(pc = "sim" /\ idx = Len(str) /\ nodes = {})
            => (pc' = "done" /\ result' = FALSE)]_vars

C13_Witness ==
    /\ pc = "done"
    /\ ~ result
    /\ nodes = {}
    /\ Len(str) = 3
    /\ subset_sim(Top, str, 1) # {}
    /\ subset_sim(Top, str, 2) = {}

\* C15: the starting set of times(A,B) is A.starting, plus B.starting
\* renumbered by |A| iff a state of A.starting is in A.finished; the
\* finished set is B.finished renumbered by |A| and holds no state of A.
C15_TimesHandOff ==
    last.op = "times" =>
        LET A == Operand(1)
            B == Operand(2)
            shiftedStart == {n + A.states : n \in B.starting}
        IN /\ A.starting \cap A.finished # {} => Top.starting = A.starting \cup shiftedStart
           /\ A.starting \cap A.finished = {} => Top.starting = A.starting
           /\ Top.finished = {n + A.states : n \in B.finished}
           /\ \A n \in Top.finished : n >= A.states

C15_Witness ==
    /\ last.op = "times"
    /\ Operand(1).finished # {}
    /\ Operand(1).starting \cap Operand(1).finished = {}
    /\ Top.starting = Operand(1).starting
    /\ Operand(1).states >= 3

\* C16: plus(A,B) has |A|+|B| states and the table of A together with the
\* table of B shifted by |A| in key and values: no key of B replaces a key
\* of A and no transition crosses between the states of A and those of B.
C16_PlusDisjoint ==
    last.op = "plus" =>
        LET A == Operand(1)
            B == Operand(2)
            shift(k) == <<k[1] + A.states, k[2]>>
        IN /\ Top.states = A.states + B.states
           /\ DOMAIN Top.delta = (DOMAIN A.delta) \cup {shift(k) : k \in DOMAIN B.delta}
           /\ \A k \in DOMAIN A.delta : Top.delta[k] = A.delta[k]
           /\ \A k \in DOMAIN B.delta :
                 Top.delta[shift(k)] = {n + A.states : n \in B.delta[k]}
           /\ \A k \in DOMAIN A.delta : \A j \in DOMAIN B.delta : k # shift(j)
           /\ \A k \in DOMAIN Top.delta : \A n \in Top.delta[k] :
                 (k[1] < A.states) <=> (n < A.states)

C16_Witness ==
    /\ last.op = "plus"
    /\ \E k \in DOMAIN Operand(1).delta : k \in DOMAIN Operand(2).delta
    /\ Operand(1).states >= 2
    /\ Operand(2).states >= 2

\* C17: star(A) has the state count and the starting set of A, the finished
\* set A.finished \cup A.starting, the keys of A, and each target set T of A
\* becomes T \cup A.starting when T meets A's finished set and stays T
\* otherwise.
C17_StarStructure ==
    last.op = "star" =>
        LET A == Operand(1)
        IN /\ Top.states = A.states
           /\ Top.starting = A.starting
           /\ Top.finished = A.finished \cup A.starting
           /\ DOMAIN Top.delta = DOMAIN A.delta
           /\ \A k \in DOMAIN A.delta :
                 /\ A.delta[k] \cap A.finished # {} => Top.delta[k] = A.delta[k] \cup A.starting
                 /\ A.delta[k] \cap A.finished = {} => Top.delta[k] = A.delta[k]

C17_Witness ==
    /\ last.op = "star"
    /\ \E k \in DOMAIN Operand(1).delta :
          /\ Operand(1).delta[k] \cap Operand(1).finished = {}
          /\ Operand(1).delta[k] \cap Operand(1).starting # {}
          /\ Top.delta[k] = Operand(1).delta[k]
    /\ \E k \in DOMAIN Operand(1).delta :
          /\ Operand(1).delta[k] \cap Operand(1).finished # {}
          /\ Top.delta[k] # Operand(1).delta[k]

\* C19: every automaton built by empty, unit, plus, times and star has a
\* non-empty starting set and a non-empty finished set, so that is_match
\* spawns at least one thread and starts its counter at a positive value.
C19_NonEmptySets ==
    /\ \A i \in 1..Len(stack) : stack[i].starting # {} /\ stack[i].finished # {}
    /\ pc = "spawn" => (num_threads > 0 /\ DOMAIN thr # {})

C19_Witness ==
    /\ pc = "spawn"
    /\ num_threads >= 2
    /\ \E n \in DOMAIN thr : thr[n] = "run"
    /\ Top.starting # Top.finished

threads_done == {n \in DOMAIN thr : thr[n] = "done"}

\* C20: num_threads starts at |starting| and each spawned thread takes one
\* from it once: it is |starting| minus the number of finished threads, never
\* below zero, and zero once all the spawned threads have run.
C20_Countdown ==
    pc # "idle" =>
        /\ DOMAIN thr = Top.starting
        /\ num_threads = Cardinality(Top.starting) - Cardinality(threads_done)
        /\ num_threads >= 0
        /\ threads_done = DOMAIN thr => num_threads = 0

C20_Witness ==
    /\ pc = "recv"
    /\ Cardinality(DOMAIN thr) >= 2
    /\ threads_done = DOMAIN thr
    /\ num_threads = 0

\* delta(s, sym), empty when the table has no such key
lookup(nfa, s, sym) ==
    IF <<s, sym>> \in DOMAIN nfa.delta THEN nfa.delta[<<s, sym>>] ELSE {}

\* the subset simulation with wildcard transitions: the active set after
\* the first k symbols of s
RECURSIVE wild_sim(_, _, _)
wild_sim(nfa, s, k) ==
    IF k = 0 THEN nfa.starting
    ELSE UNION {lookup(nfa, p, s[k]) \cup lookup(nfa, p, Wildcard) :
                    p \in wild_sim(nfa, s, k - 1)}

two_units(x, y) ==
    /\ last.op = "times"
    /\ Operand(1) = unit(x)
    /\ Operand(2) = unit(y)

C18_SignalRunsAhead ==
    pc = "recfn" =>
        num_threads = Cardinality(Top.starting) - Len(sent)

\* the counter is zero and only rejections were sent while a call that will
\* report acceptance has not run
C18_Witness ==
    /\ pc = "recfn"
    /\ num_threads = 0
    /\ Len(sent) >= 1
    /\ \A i \in 1..Len(sent) : ~ sent[i]
    /\ \E p \in tasks : rec_branch(Top, str, p) = "true"

====
